---- MODULE Spec2Model ----
(***************************************************************************)
(* Model of main.py, a Streamlit quiz script.                              *)
(*                                                                         *)
(* Streamlit executes the whole script top to bottom on every interaction. *)
(* A click on a button starts a script run in which the st.button call     *)
(* that creates the same widget returns True; st.rerun() abandons that run *)
(* and starts a second one that only renders.  The session state           *)
(* (view_mode, current_q_index, explanation, mistake_pointer) survives     *)
(* between runs; the local variables of the script (status_map,            *)
(* wrong_indices) are recomputed by each run.  The variables display,      *)
(* shown_q, status_map and radio hold what the last completed run put on   *)
(* the page, which is what the user can act on.                            *)
(***************************************************************************)
EXTENDS Integers, Sequences, FiniteSets, TLC

\* Bounds of the model.
MaxN == 2          \* at most this many rows in courseware.csv
MaxHist == 3       \* at most this many rows in user_attempt_history
MaxRows == 3       \* at most this many rows in a history read under SpecHist
MaxDone == 4       \* at most this many attempted questions under SpecStats

None == "<None>"   \* Python's None
NoQ == 0 - 1       \* no question on the page

\* ---------------------------------------------------------------------
\* The parsed questions (load_and_parse_data).  A row parses either to a
\* question with options A and B, or to one whose options block matched
\* nothing.  The answer column of every modelled row is "A".
\* ---------------------------------------------------------------------
QuestionKinds ==
    { [options |-> {"A", "B"}, answer |-> "A"],
      [options |-> {},         answer |-> "A"] }

\* load_and_parse_data: one parsed entry per row of the file when it can be
\* read (csv_readable), the empty list when pd.read_csv raises.
load_and_parse_data(csv_readable, rows) ==
    IF csv_readable THEN rows ELSE << >>

\* What get_ai_explanation can return: the completion's text, which may be
\* the empty string, or the placeholder built in its except branch.
get_ai_explanation == {"text", "", "unavailable"}

\* Python truthiness of session_state.explanation.
Truthy(e) == e # None /\ e # ""

VARIABLES
    questions_data,    \* the parsed questions, fixed at startup
    csv_ok,            \* whether pd.read_csv succeeded
    store,             \* rows of the table user_attempt_history for USER_ID
    view_mode,         \* st.session_state.view_mode
    current_q_index,   \* st.session_state.current_q_index
    explanation,       \* st.session_state.explanation
    explained_q,       \* history: the question whose submission stored explanation
    mistake_pointer,   \* st.session_state.mistake_pointer
    display,           \* page of the last completed run
    shown_q,           \* index of the question on that page, or NoQ
    status_map,        \* the status_map of the last run that read the history
    accuracy,          \* the percentage in the accuracy metric of the overview
    wrong_list,        \* the wrong_indices of the last run that read the history
    radio,             \* selection of the radio widget on the page, or None
    pc,                \* "idle", or "logged" inside the submit handler
    event              \* what the last handler of this session did

vars == << questions_data, csv_ok, store, view_mode, current_q_index,
           explanation, explained_q, mistake_pointer, display, shown_q, status_map,
           accuracy, wrong_list, radio, pc, event >>

session == << view_mode, current_q_index, explanation, mistake_pointer >>

total_q == Len(questions_data)

\* ---------------------------------------------------------------------
\* get_user_history
\* ---------------------------------------------------------------------
RECURSIVE InsertByTimestamp(_, _)
InsertByTimestamp(r, s) ==
    IF s = << >> THEN << r >>
    ELSE IF r.timestamp < Head(s).timestamp THEN << r >> \o s
    ELSE << Head(s) >> \o InsertByTimestamp(r, Tail(s))

\* sort_values leaving the rows in the order the query returned them.
sort_values_skipped(rows) == rows

\* df_hist.sort_values('timestamp')
RECURSIVE sort_values(_)
sort_values(rows) ==
    IF rows = << >> THEN << >>
    ELSE InsertByTimestamp(rows[Len(rows)],
                           sort_values(SubSeq(rows, 1, Len(rows) - 1)))

\* .drop_duplicates('question_index', keep='last')
RECURSIVE drop_duplicates(_)
drop_duplicates(s) ==
    IF s = << >> THEN << >>
    ELSE IF \E j \in 2..Len(s) : s[j].question_index = Head(s).question_index
         THEN drop_duplicates(Tail(s))
         ELSE << Head(s) >> \o drop_duplicates(Tail(s))

\* A Python dict is modelled as the sequence of its items in insertion
\* order, each item a record [k, v]; keys are unique.
EmptyDict == << >>
Keys(d) == { d[i].k : i \in 1..Len(d) }
Get(d, key) == (CHOOSE i \in 1..Len(d) : d[i].k = key)
Value(d, key) == d[Get(d, key)].v

\* dict.__setitem__: a new key goes last, an existing key keeps its place.
SetItem(d, key, val) ==
    IF key \in Keys(d)
    THEN [i \in 1..Len(d) |-> IF d[i].k = key THEN [k |-> key, v |-> val] ELSE d[i]]
    ELSE Append(d, [k |-> key, v |-> val])

\* dict(zip(latest_attempts['question_index'], latest_attempts['is_correct']))
RECURSIVE dict_zip(_)
dict_zip(latest) ==
    IF latest = << >> THEN EmptyDict
    ELSE SetItem(dict_zip(SubSeq(latest, 1, Len(latest) - 1)),
                 latest[Len(latest)].question_index,
                 latest[Len(latest)].is_correct)

\* db_ok is FALSE when the query raises: the except branch returns {}.
get_user_history(rows, db_ok) ==
    IF ~db_ok THEN EmptyDict
    ELSE IF rows = << >> THEN EmptyDict
    ELSE dict_zip(drop_duplicates(sort_values(rows)))

\* ---------------------------------------------------------------------
\* Overview computations
\* ---------------------------------------------------------------------
\* The for/else loop that looks for the first index not in status_map.
RECURSIVE first_missing(_, _, _)
first_missing(i, n, status) ==
    IF i >= n THEN 0 - 1
    ELSE IF i \notin Keys(status) THEN i
    ELSE first_missing(i + 1, n, status)

\* next_todo_index with the loop starting at the second question.
next_todo_index_from_one(status) == first_missing(1, total_q, status)

next_todo_index(status) == first_missing(0, total_q, status)

\* sum(1 for v in status_map.values() if v)
correct_count(status) == Len(SelectSeq(status, LAMBDA item : item.v))

\* int(correct_count/completed*100) if completed > 0 else 0.  int() drops
\* the fraction; for fewer than 50 completed questions the float product
\* truncates to the integer quotient of 100 * correct_count by completed.
accuracy_pct(status) ==
    LET completed == Len(status)
    IN  IF completed > 0 THEN (correct_count(status) * 100) \div completed ELSE 0

RECURSIVE InsertSorted(_, _)
InsertSorted(x, s) ==
    IF s = << >> THEN << x >>
    ELSE IF x < Head(s) THEN << x >> \o s
    ELSE << Head(s) >> \o InsertSorted(x, Tail(s))

\* list.sort()
RECURSIVE list_sort(_)
list_sort(s) ==
    IF s = << >> THEN << >>
    ELSE InsertSorted(s[Len(s)], list_sort(SubSeq(s, 1, Len(s) - 1)))

\* wrong_indices left in the order of the items of status_map.
wrong_indices_unsorted(status) ==
    LET wrong == SelectSeq(status, LAMBDA item : ~item.v)
    IN  [i \in 1..Len(wrong) |-> wrong[i].k]

\* [idx for idx, is_right in status_map.items() if not is_right], sorted.
wrong_indices(status) ==
    LET wrong == SelectSeq(status, LAMBDA item : ~item.v)
    IN  list_sort([i \in 1..Len(wrong) |-> wrong[i].k])

\* log_attempt recording the attempt under the 1-based question number.
log_attempt_one_based(rows, q_index, selected_opt, is_correct, saved) ==
    IF saved
    THEN Append(rows, [question_index  |-> q_index + 1,
                       selected_option |-> selected_opt,
                       is_correct      |-> is_correct,
                       timestamp       |-> Len(rows) + 1])
    ELSE rows

\* log_attempt as an upsert: the row replaces the question's earlier rows.
log_attempt_upsert(rows, q_index, selected_opt, is_correct, saved) ==
    IF saved
    THEN Append(SelectSeq(rows, LAMBDA r : r.question_index # q_index),
                [question_index  |-> q_index,
                 selected_option |-> selected_opt,
                 is_correct      |-> is_correct,
                 timestamp       |-> Len(rows) + 1])
    ELSE rows

\* log_attempt storing a constant in the is_correct column.
log_attempt_flag_dropped(rows, q_index, selected_opt, is_correct, saved) ==
    IF saved
    THEN Append(rows, [question_index  |-> q_index,
                       selected_option |-> selected_opt,
                       is_correct      |-> TRUE,
                       timestamp       |-> Len(rows) + 1])
    ELSE rows

\* ---------------------------------------------------------------------
\* log_attempt: one insert; the database stamps the row.  saved is FALSE
\* when the insert raises, which the except branch only reports.
\* ---------------------------------------------------------------------
log_attempt(rows, q_index, selected_opt, is_correct, saved) ==
    IF saved
    THEN Append(rows, [question_index  |-> q_index,
                       selected_option |-> selected_opt,
                       is_correct      |-> is_correct,
                       timestamp       |-> Len(rows) + 1])
    ELSE rows

\* Python list indexing: s[i] raises IndexError outside -len(s)..len(s)-1.
InRange(s, i) == 0 - Len(s) <= i /\ i < Len(s)
Item(s, i) == IF i < 0 THEN s[Len(s) + i + 1] ELSE s[i + 1]

\* ---------------------------------------------------------------------
\* One script run in which no handler fires: the page it renders and the
\* mistake_pointer it leaves (the review dispatch clamps it).  A run that
\* raises IndexError leaves the "error" page, which has no widgets.
\* ---------------------------------------------------------------------
Page(d, q, mp, status) ==
    [display |-> d, shown_q |-> q, mistake_pointer |-> mp, status_map |-> status]

\* view_mode == 'grid'
grid_view(mp, rows, db_ok) ==
    Page("grid", NoQ, mp, get_user_history(rows, db_ok))

\* view_mode == 'quiz'
quiz_view(cq, mp) ==
    IF InRange(questions_data, cq)
    THEN Page("quiz", cq, mp, EmptyDict)
    ELSE Page("error", NoQ, mp, EmptyDict)

\* review_mistakes_view with the clamp testing > instead of >=.
review_mistakes_view_late_clamp(mp, rows, db_ok) ==
    LET status == get_user_history(rows, db_ok)
        wrong  == wrong_indices(status)
        p      == IF mp > Len(wrong) THEN 0 ELSE mp
    IN  IF wrong = << >>
        THEN Page("cleared", NoQ, mp, status)
        ELSE IF InRange(wrong, p) /\ InRange(questions_data, Item(wrong, p))
        THEN Page("review", Item(wrong, p), p, status)
        ELSE Page("error", NoQ, p, status)

\* view_mode == 'review_mistakes'
review_mistakes_view(mp, rows, db_ok) ==
    LET status == get_user_history(rows, db_ok)
        wrong  == wrong_indices(status)
        p      == IF mp >= Len(wrong) THEN 0 ELSE mp
    IN  IF wrong = << >>
        THEN Page("cleared", NoQ, mp, status)
        ELSE IF InRange(wrong, p) /\ InRange(questions_data, Item(wrong, p))
        THEN Page("review", Item(wrong, p), p, status)
        ELSE Page("error", NoQ, p, status)

View(vm, cq, mp, rows, db_ok) ==
    CASE vm = "grid"            -> grid_view(mp, rows, db_ok)
      [] vm = "quiz"            -> quiz_view(cq, mp)
      [] vm = "review_mistakes" -> review_mistakes_view(mp, rows, db_ok)

\* ---------------------------------------------------------------------
\* Widgets of a page
\* ---------------------------------------------------------------------
Options(q) == Item(questions_data, q).options
Answer(q) == Item(questions_data, q).answer

\* render_quiz_ui returns before the radio and the buttons when the
\* question has no options.
HasQuestion(page) == page.display \in {"quiz", "review"}
HasRadio(page) == HasQuestion(page) /\ Options(page.shown_q) # {}

BackOffered(page) == HasQuestion(page)
SubmitOffered(page, ex) == HasRadio(page) /\ ex = None
NextOffered(page, ex) == HasRadio(page) /\ Truthy(ex)
ClearedBackOffered(page) == page.display = "cleared"
ContinueOffered(page) ==
    page.display = "grid" /\ next_todo_index(page.status_map) # 0 - 1
\* The review button created whatever wrong_count is.
ReviewOffered_always(page) == page.display = "grid"

ReviewOffered(page) ==
    page.display = "grid" /\ Len(wrong_indices(page.status_map)) > 0

\* Label of the grid button of question q.
GridLabel(status, q) ==
    IF q \in Keys(status)
    THEN IF Value(status, q) THEN "right" ELSE "wrong"
    ELSE "plain"

\* The page the user is looking at.
Cur == Page(display, shown_q, mistake_pointer, status_map)

\* The value of the radio widget in a run that renders page: widget state
\* is kept per key (radio_<q> / radio_<q>_review) and dropped by a run that
\* does not render the key.
RadioOn(page, sel) ==
    IF HasRadio(page) /\ page.display = display /\ page.shown_q = shown_q
    THEN sel ELSE None

\* ---------------------------------------------------------------------
\* Events: what the last handler of this session did.
\* ---------------------------------------------------------------------
Ev(kind) ==
    [kind |-> kind, q |-> NoQ, sel |-> None, is_correct |-> FALSE,
     saved |-> FALSE, expl |-> None, db_ok |-> TRUE, pos |-> 0]

\* The page becomes what the run rendered.
Show(page, sel) ==
    /\ display' = page.display
    /\ shown_q' = page.shown_q
    /\ mistake_pointer' = page.mistake_pointer
    /\ status_map' = page.status_map
    /\ accuracy' = (IF page.display = "grid" THEN accuracy_pct(page.status_map) ELSE 0)
    /\ wrong_list' = wrong_indices(page.status_map)
    /\ radio' = RadioOn(page, sel)

\* A run in which the clicked widget is not created: nothing but the
\* rendering happens.
Lost(page) ==
    /\ Show(page, radio)
    /\ event' = Ev("lost")
    /\ UNCHANGED << questions_data, csv_ok, store, view_mode,
                    current_q_index, explanation, explained_q, pc >>

Init ==
    /\ csv_ok \in BOOLEAN
    /\ \E n \in 0..MaxN : \E rows \in [1..n -> QuestionKinds] :
          questions_data = load_and_parse_data(csv_ok, rows)
    /\ store = << >>
    /\ view_mode = "grid"
    /\ current_q_index = 0
    /\ explanation = None
    /\ explained_q = NoQ
    /\ mistake_pointer = 0
    /\ display = "grid"
    /\ shown_q = NoQ
    /\ status_map = EmptyDict
    /\ accuracy = 0
    /\ wrong_list = << >>
    /\ radio = None
    /\ pc = "idle"
    /\ event = Ev("init")

\* The outcomes of the history read of a run in view vm: the quiz view
\* reads nothing.
ReadOutcomes(vm) == IF vm = "quiz" THEN {TRUE} ELSE BOOLEAN

\* ---------------------------------------------------------------------
\* Overview (grid) buttons.  Each click is a run of the grid block, which
\* reads the history again; the button is the clicked one only if it is
\* created with the same label.
\* ---------------------------------------------------------------------
\* "continue" button: its label carries next_todo_index.
Continue ==
    /\ pc = "idle"
    /\ ContinueOffered(Cur)
    /\ \E db1 \in ReadOutcomes("grid") :
         LET run  == grid_view(mistake_pointer, store, db1)
             todo == next_todo_index(run.status_map)
         IN  IF todo # 0 - 1 /\ todo = next_todo_index(status_map)
             THEN /\ current_q_index' = todo
                  /\ view_mode' = "quiz"
                  /\ explanation' = None
                  /\ explained_q' = NoQ
                  /\ \E db2 \in ReadOutcomes("quiz") :
                       Show(View("quiz", todo, run.mistake_pointer, store, db2), radio)
                  /\ event' = [Ev("continue") EXCEPT !.q = todo]
                  /\ UNCHANGED << questions_data, csv_ok, store, pc >>
             ELSE Lost(run)

\* "review mistakes" button: its label carries wrong_count.
EnterReview ==
    /\ pc = "idle"
    /\ ReviewOffered(Cur)
    /\ \E db1 \in ReadOutcomes("grid") :
         LET run         == grid_view(mistake_pointer, store, db1)
             wrong_count == Len(wrong_indices(run.status_map))
         IN  IF ReviewOffered(run) /\ wrong_count = Len(wrong_indices(status_map))
             THEN /\ view_mode' = "review_mistakes"
                  /\ explanation' = None
                  /\ explained_q' = NoQ
                  /\ \E db2 \in ReadOutcomes("review_mistakes") :
                       Show(View("review_mistakes", current_q_index, 0, store, db2), radio)
                  /\ event' = Ev("enter_review")
                  /\ UNCHANGED << questions_data, csv_ok, store, current_q_index, pc >>
             ELSE Lost(run)

\* Grid button of question q (key grid_btn_<q>).  Its label follows the
\* status of q; whether a button whose label changed is still the clicked
\* widget depends on the Streamlit build, so both outcomes are possible.
GridSelect(q) ==
    /\ pc = "idle"
    /\ display = "grid"
    /\ \E db1 \in ReadOutcomes("grid") :
         LET run        == grid_view(mistake_pointer, store, db1)
             same_label == GridLabel(run.status_map, q) = GridLabel(status_map, q)
         IN  \/ /\ current_q_index' = q
                /\ view_mode' = "quiz"
                /\ explanation' = None
                /\ explained_q' = NoQ
                /\ \E db2 \in ReadOutcomes("quiz") :
                     Show(View("quiz", q, run.mistake_pointer, store, db2), radio)
                /\ event' = [Ev("grid_select") EXCEPT !.q = q]
                /\ UNCHANGED << questions_data, csv_ok, store, pc >>
             \/ /\ ~same_label
                /\ Lost(run)

\* ---------------------------------------------------------------------
\* render_quiz_ui
\* ---------------------------------------------------------------------
\* The "back" button at the top of render_quiz_ui.
Back ==
    /\ pc = "idle"
    /\ BackOffered(Cur)
    /\ \E db1 \in ReadOutcomes(view_mode) :
         LET run == View(view_mode, current_q_index, mistake_pointer, store, db1)
         IN  IF BackOffered(run)
             THEN /\ view_mode' = "grid"
                  /\ explanation' = None
                  /\ explained_q' = NoQ
                  /\ \E db2 \in ReadOutcomes("grid") :
                       Show(View("grid", current_q_index, run.mistake_pointer, store, db2),
                            radio)
                  /\ event' = Ev("back")
                  /\ UNCHANGED << questions_data, csv_ok, store, current_q_index, pc >>
             ELSE Lost(run)

\* The "back" button of the cleared-mistakes display.
BackCleared ==
    /\ pc = "idle"
    /\ ClearedBackOffered(Cur)
    /\ \E db1 \in ReadOutcomes(view_mode) :
         LET run == View(view_mode, current_q_index, mistake_pointer, store, db1)
         IN  IF ClearedBackOffered(run)
             THEN /\ view_mode' = "grid"
                  /\ \E db2 \in ReadOutcomes("grid") :
                       Show(View("grid", current_q_index, run.mistake_pointer, store, db2),
                            radio)
                  /\ event' = Ev("back_cleared")
                  /\ UNCHANGED << questions_data, csv_ok, store, current_q_index,
                                  explanation, explained_q, pc >>
             ELSE Lost(run)

\* A change of the radio selection: a run that only renders.
SelectOption(letter) ==
    /\ pc = "idle"
    /\ HasRadio(Cur)
    /\ letter \in Options(shown_q)
    /\ letter # radio
    /\ \E db1 \in ReadOutcomes(view_mode) :
         LET run == View(view_mode, current_q_index, mistake_pointer, store, db1)
         IN  /\ Show(run, letter)
             /\ event' = Ev("select")
             /\ UNCHANGED << questions_data, csv_ok, store, view_mode,
                             current_q_index, explanation, explained_q, pc >>

\* next_handler advancing in quiz mode without the test of the last index.
next_handler_unbounded(vm, cq, mp) ==
    IF vm = "review_mistakes"
    THEN [view_mode |-> vm, current_q_index |-> cq, mistake_pointer |-> mp + 1]
    ELSE [view_mode |-> vm, current_q_index |-> cq + 1, mistake_pointer |-> mp]

\* The session state the "next" handler leaves.
next_handler(vm, cq, mp) ==
    IF vm = "review_mistakes"
    THEN [view_mode |-> vm, current_q_index |-> cq, mistake_pointer |-> mp + 1]
    ELSE IF cq < total_q - 1
         THEN [view_mode |-> vm, current_q_index |-> cq + 1, mistake_pointer |-> mp]
         ELSE [view_mode |-> "grid", current_q_index |-> cq, mistake_pointer |-> mp]

\* The "next" button, created only while explanation is truthy.
NextQuestion ==
    /\ pc = "idle"
    /\ NextOffered(Cur, explanation)
    /\ \E db1 \in ReadOutcomes(view_mode) :
         LET run == View(view_mode, current_q_index, mistake_pointer, store, db1)
             s   == next_handler(view_mode, current_q_index, run.mistake_pointer)
         IN  IF NextOffered(run, explanation)
             THEN /\ explanation' = None
                  /\ explained_q' = NoQ
                  /\ view_mode' = s.view_mode
                  /\ current_q_index' = s.current_q_index
                  /\ \E db2 \in ReadOutcomes(s.view_mode) :
                       Show(View(s.view_mode, s.current_q_index, s.mistake_pointer,
                                 store, db2), radio)
                  /\ event' = [Ev("next") EXCEPT !.q = run.shown_q]
                  /\ UNCHANGED << questions_data, csv_ok, store, pc >>
             ELSE Lost(run)

\* ---------------------------------------------------------------------
\* The "submit" button, created only while explanation is None.
\* ---------------------------------------------------------------------
\* First half of the handler: the run reaches the button, reads the radio
\* and calls log_attempt.  With nothing selected it only warns.
SubmitAnswer ==
    /\ pc = "idle"
    /\ SubmitOffered(Cur, explanation)
    /\ \E db1 \in ReadOutcomes(view_mode) :
         LET run            == View(view_mode, current_q_index, mistake_pointer, store, db1)
             q_idx          == run.shown_q
             selected_label == RadioOn(run, radio)
             is_correct     == (selected_label = Answer(q_idx))
         IN  IF ~SubmitOffered(run, explanation)
             THEN Lost(run)
             ELSE IF selected_label = None
             THEN /\ Show(run, radio)
                  /\ event' = [Ev("no_selection") EXCEPT !.q = q_idx]
                  /\ UNCHANGED << questions_data, csv_ok, store, view_mode,
                                  current_q_index, explanation, explained_q, pc >>
             ELSE /\ Len(store) < MaxHist
                  /\ \E saved \in BOOLEAN :
                       /\ store' = log_attempt(store, q_idx, selected_label,
                                               is_correct, saved)
                       /\ event' = [Ev("log") EXCEPT !.q = q_idx,
                                                     !.sel = selected_label,
                                                     !.is_correct = is_correct,
                                                     !.saved = saved,
                                                     !.pos = Len(store) + 1]
                  /\ Show(run, radio)
                  /\ pc' = "logged"
                  /\ UNCHANGED << questions_data, csv_ok, view_mode,
                                  current_q_index, explanation, explained_q >>

\* submit_handler with the bound of the advance test off by one.
submit_handler_off_by_one(vm, cq, ex, is_correct, expl) ==
    IF is_correct
    THEN IF vm = "review_mistakes"
         THEN [view_mode |-> vm, current_q_index |-> cq, explanation |-> ex]
         ELSE IF cq < total_q
              THEN [view_mode |-> vm, current_q_index |-> cq + 1, explanation |-> ex]
              ELSE [view_mode |-> "grid", current_q_index |-> cq, explanation |-> ex]
    ELSE [view_mode |-> vm, current_q_index |-> cq, explanation |-> expl]

\* The session state the rest of the submit handler leaves: a correct
\* answer advances in quiz mode and changes nothing in review mode, a wrong
\* one stores the explanation.
submit_handler(vm, cq, ex, is_correct, expl) ==
    IF is_correct
    THEN IF vm = "review_mistakes"
         THEN [view_mode |-> vm, current_q_index |-> cq, explanation |-> ex]
         ELSE IF cq < total_q - 1
              THEN [view_mode |-> vm, current_q_index |-> cq + 1, explanation |-> ex]
              ELSE [view_mode |-> "grid", current_q_index |-> cq, explanation |-> ex]
    ELSE [view_mode |-> vm, current_q_index |-> cq, explanation |-> expl]

\* The handler's state change followed by the run st.rerun() starts, over
\* the history rows.
after_submit(vm, cq, ex, mp, rows, is_correct, expl, db_ok) ==
    LET s == submit_handler(vm, cq, ex, is_correct, expl)
    IN  [session |-> s,
         page    |-> View(s.view_mode, s.current_q_index, mp, rows, db_ok)]

\* Second half of the handler.  The generator is called only for a wrong
\* answer.
SubmitBranch ==
    /\ pc = "logged"
    /\ \E expl \in (IF event.is_correct THEN {None} ELSE get_ai_explanation) :
         LET s == submit_handler(view_mode, current_q_index, explanation,
                                 event.is_correct, expl)
         IN  \E db2 \in ReadOutcomes(s.view_mode) :
               LET r == after_submit(view_mode, current_q_index, explanation,
                                     mistake_pointer, store, event.is_correct,
                                     expl, db2)
               IN  /\ view_mode' = r.session.view_mode
                   /\ current_q_index' = r.session.current_q_index
                   /\ explanation' = r.session.explanation
                   /\ explained_q' = (IF event.is_correct THEN explained_q ELSE event.q)
                   /\ Show(r.page, radio)
                   /\ pc' = "idle"
                   /\ event' = [Ev(IF event.is_correct THEN "submit_correct"
                                   ELSE "submit_incorrect") EXCEPT
                                  !.q = event.q,
                                  !.is_correct = event.is_correct,
                                  !.expl = expl,
                                  !.db_ok = db2]
                   /\ UNCHANGED << questions_data, csv_ok, store >>

\* ---------------------------------------------------------------------
\* Another session of the same USER_ID records an attempt.
\* ---------------------------------------------------------------------
OtherSession ==
    /\ Len(store) < MaxHist
    /\ \E q \in 0..(total_q - 1) : \E letter \in Options(q) :
         store' = log_attempt(store, q, letter, letter = Answer(q), TRUE)
    /\ UNCHANGED << questions_data, csv_ok, view_mode, current_q_index,
                    explanation, explained_q, mistake_pointer, display, shown_q, status_map,
                    accuracy, wrong_list, radio, pc, event >>

\* One session on its own.
Next ==
    \/ Continue
    \/ EnterReview
    \/ \E q \in 0..(total_q - 1) : GridSelect(q)
    \/ Back
    \/ BackCleared
    \/ \E letter \in {"A", "B"} : SelectOption(letter)
    \/ NextQuestion
    \/ SubmitAnswer
    \/ SubmitBranch

Spec == Init /\ [][Next]_vars

\* The session next to other sessions that write to the same table.
NextShared ==
    \/ Next
    \/ OtherSession

SpecShared == Init /\ [][NextShared]_vars

\* ---------------------------------------------------------------------
\* get_user_history on its own: the table holds any rows with distinct
\* timestamps, returned by the query in any order, and one read is made.
\* ---------------------------------------------------------------------
TimestampOrders(n) ==
    { f \in [1..n -> 1..n] : \A i \in 1..n, j \in 1..n : i # j => f[i] # f[j] }

HistoryRows(n) ==
    { [i \in 1..n |-> [question_index  |-> qs[i],
                       selected_option |-> IF oks[i] THEN "A" ELSE "B",
                       is_correct      |-> oks[i],
                       timestamp       |-> ts[i]]] :
        qs \in [1..n -> 0..(MaxN - 1)],
        oks \in [1..n -> BOOLEAN],
        ts \in TimestampOrders(n) }

InitHist ==
    /\ csv_ok = TRUE
    /\ questions_data = [i \in 1..MaxN |-> [options |-> {"A", "B"}, answer |-> "A"]]
    /\ \E n \in 0..MaxRows : store \in HistoryRows(n)
    /\ view_mode = "grid"
    /\ current_q_index = 0
    /\ explanation = None
    /\ explained_q = NoQ
    /\ mistake_pointer = 0
    /\ display = "grid"
    /\ shown_q = NoQ
    /\ status_map = EmptyDict
    /\ accuracy = 0
    /\ wrong_list = << >>
    /\ radio = None
    /\ pc = "history"
    /\ event = Ev("init")

FetchStatus ==
    /\ pc = "history"
    /\ \E db_ok \in BOOLEAN :
         /\ status_map' = get_user_history(store, db_ok)
         /\ event' = [Ev("fetch") EXCEPT !.db_ok = db_ok]
    /\ pc' = "fetched"
    /\ UNCHANGED << questions_data, csv_ok, store, view_mode, current_q_index,
                    explanation, explained_q, mistake_pointer, display, shown_q, accuracy,
                    wrong_list, radio >>

NextHist == FetchStatus

SpecHist == InitHist /\ [][NextHist]_vars

\* ---------------------------------------------------------------------
\* The statistics of the overview on their own: the history read returned
\* any status map over at most MaxDone questions, and the overview is
\* rendered from it.
\* ---------------------------------------------------------------------
RECURSIVE StatusMaps(_)
StatusMaps(keys) ==
    {EmptyDict} \cup
    UNION { { << [k |-> key, v |-> val] >> \o rest :
                val \in BOOLEAN, rest \in StatusMaps(keys \ {key}) } : key \in keys }

InitStats ==
    /\ csv_ok = TRUE
    /\ questions_data = [i \in 1..MaxDone |-> [options |-> {"A", "B"}, answer |-> "A"]]
    /\ store = << >>
    /\ view_mode = "grid"
    /\ current_q_index = 0
    /\ explanation = None
    /\ explained_q = NoQ
    /\ mistake_pointer = 0
    /\ display = "grid"
    /\ shown_q = NoQ
    /\ status_map \in StatusMaps(0..(MaxDone - 1))
    /\ accuracy = 0
    /\ wrong_list = << >>
    /\ radio = None
    /\ pc = "statistics"
    /\ event = Ev("init")

ShowStatistics ==
    /\ pc = "statistics"
    /\ accuracy' = accuracy_pct(status_map)
    /\ wrong_list' = wrong_indices(status_map)
    /\ event' = Ev("statistics")
    /\ pc' = "shown"
    /\ UNCHANGED << questions_data, csv_ok, store, view_mode, current_q_index,
                    explanation, explained_q, mistake_pointer, display, shown_q, status_map,
                    radio >>

NextStats == ShowStatistics

SpecStats == InitStats /\ [][NextStats]_vars

\* =====================================================================
\* Properties
\* =====================================================================
\* Steps of the two halves of the submit handler and of the "next" handler.
LogStep == pc = "idle" /\ pc' = "logged"
BranchStep == pc = "logged" /\ pc' = "idle"
HandlerStep(kind) == event' # event /\ event'.kind = kind

\* C1: leaving Quiz(i) by a correct submission made with no explanation
\* pending, or by "next" from the explanation sub-state, leads to Quiz(i+1)
\* when i+1 < N and to the overview when i = N-1, with no explanation
\* pending afterwards.
C1_QuizAdvance ==
    [][ ( /\ view_mode = "quiz"
          /\ \/ BranchStep /\ event.is_correct /\ explanation = None
             \/ HandlerStep("next") )
        => /\ explanation' = None
           /\ IF current_q_index + 1 < total_q
              THEN /\ view_mode' = "quiz"
                   /\ current_q_index' = current_q_index + 1
                   /\ display' = "quiz"
                   /\ shown_q' = current_q_index + 1
              ELSE /\ current_q_index = total_q - 1
                   /\ view_mode' = "grid"
                   /\ display' = "grid" ]_vars

\* A correct submission has moved the quiz from question 0 to question 1.
C1_Witness ==
    /\ event.kind = "submit_correct"
    /\ event.q = 0
    /\ display = "quiz"
    /\ current_q_index = 1

\* C2: after an incorrect submission the page shows the same view and the
\* same question, explanation holds what the generator returned, the
\* submit button is gone and the next button is there.
C2_IncorrectShowsNext ==
    event.kind = "submit_incorrect"
    => /\ display = (IF view_mode = "quiz" THEN "quiz" ELSE "review")
       /\ shown_q = event.q
       /\ explanation = event.expl
       /\ ~SubmitOffered(Cur, explanation)
       /\ NextOffered(Cur, explanation)

\* C3: a correct submission in mistake review at cursor k over the list W
\* leaves the cursor at k, and the question then displayed is W[k+1] when
\* k+1 < |W|.
C3_ReviewCorrectShowsNextEntry ==
    [][ ( /\ view_mode = "review_mistakes"
          /\ BranchStep
          /\ event.is_correct )
        => LET W == wrong_indices(status_map)
               k == mistake_pointer
           IN  /\ mistake_pointer' = k
               /\ k + 1 < Len(W) => /\ display' = "review"
                                    /\ shown_q' = Item(W, k + 1) ]_vars

\* The ascending list of the keys of a status map whose value is false,
\* defined without the script's computation.
FalseKeys(status) == { key \in Keys(status) : ~Value(status, key) }
IsAscendingListOf(list, set) ==
    /\ { list[i] : i \in 1..Len(list) } = set
    /\ \A i \in 1..Len(list), j \in 1..Len(list) : i < j => list[i] < list[j]

\* C4: whenever the mistake-review view displays a question, the cursor is
\* an index of the recomputed mistake list and the question displayed is
\* the list's entry there; no run ends in an IndexError.
C4_CursorInRange ==
    /\ display # "error"
    /\ display = "review"
       => \E W \in [1..Cardinality(FalseKeys(status_map)) -> FalseKeys(status_map)] :
             /\ IsAscendingListOf(W, FalseKeys(status_map))
             /\ 0 <= mistake_pointer
             /\ mistake_pointer < Len(W)
             /\ shown_q = W[mistake_pointer + 1]
    /\ display = "cleared" => FalseKeys(status_map) = {}

\* A correct answer to the last entry of a two-entry list has shrunk the
\* list under the cursor, which was clamped from 1 to 0.
C4_Witness ==
    /\ event.kind = "submit_correct"
    /\ event.q = 1
    /\ Len(store) = 3
    /\ store[3].question_index = 1
    /\ store[3].is_correct
    /\ display = "review"
    /\ mistake_pointer = 0
    /\ shown_q = 0

\* C5: in mistake review every correct submission removes exactly the
\* answered question from the mistake list, and the cleared-mistakes
\* display follows the submission that empties the list, with no
\* IndexError on the way.
C5_CorrectAnswersDrainList ==
    [][ ( /\ view_mode = "review_mistakes"
          /\ BranchStep
          /\ event.is_correct )
        => /\ FalseKeys(status_map') = FalseKeys(status_map) \ {event.q}
           /\ display' = (IF FalseKeys(status_map) = {event.q}
                          THEN "cleared" ELSE "review") ]_vars

\* The row a submission of the selected letter for the displayed question
\* is to append.
AttemptRow ==
    [question_index  |-> shown_q,
     selected_option |-> radio,
     is_correct      |-> (radio = Answer(shown_q)),
     timestamp       |-> Len(store) + 1]

\* The steps in which explanation receives a generator result.
ExplanationStored == explanation' # explanation /\ explanation' # None

\* C6 as stated: every submission with a selected option appends exactly
\* one row, for the displayed question, with the selected letter and
\* is_correct = (letter = answer), before any session state changes and
\* before the generator is called; a submit with nothing selected appends
\* nothing and changes no session state.
C6_AppendsExactlyOne ==
    [][ /\ LogStep => /\ store' = Append(store, AttemptRow)
                      /\ session' = session
        /\ ExplanationStored => BranchStep /\ event.kind = "log"
        /\ HandlerStep("no_selection") => /\ store' = store
                                          /\ session' = session ]_vars

\* C6 amended: every submission with a selected option makes exactly one
\* append attempt, for the displayed question, with the selected letter
\* and is_correct = (letter = answer); it adds that one row when the store
\* accepts it and none when the store is unavailable.  The attempt comes
\* before view_mode, current_q_index and explanation change and before the
\* generator is called; the only session change before it is the review
\* dispatch clamping the cursor to 0.  A submit with nothing selected
\* appends nothing and changes no session state but for that clamp.
C6_AttemptsExactlyOne ==
    [][ /\ LogStep => /\ event'.q = shown_q
                      /\ event'.sel = radio
                      /\ event'.is_correct = (radio = Answer(shown_q))
                      /\ radio \in Options(shown_q)
                      /\ store' = IF event'.saved THEN Append(store, AttemptRow)
                                  ELSE store
                      /\ << view_mode', current_q_index', explanation' >>
                            = << view_mode, current_q_index, explanation >>
                      /\ mistake_pointer' \in {mistake_pointer, 0}
        /\ ExplanationStored => BranchStep /\ event.kind = "log"
        /\ BranchStep => store' = store
        /\ HandlerStep("no_selection")
              => /\ store' = store
                 /\ << view_mode', current_q_index', explanation' >>
                       = << view_mode, current_q_index, explanation >>
                 /\ mistake_pointer' \in {mistake_pointer, 0} ]_vars

\* An incorrect attempt has been appended and the handler has not gone on.
C6_Witness ==
    /\ pc = "logged"
    /\ event.saved
    /\ ~event.is_correct
    /\ store # << >>
    /\ store[Len(store)].question_index = event.q
    /\ store[Len(store)].selected_option = "B"
    /\ explanation = None

\* The history rows had the attempt of the submission under way met the
\* other outcome of log_attempt.
OtherOutcome(rows, ev) ==
    IF ev.saved
    THEN [i \in 1..(Len(rows) - 1) |-> IF i < ev.pos THEN rows[i] ELSE rows[i + 1]]
    ELSE [i \in 1..(Len(rows) + 1) |->
            IF i < ev.pos THEN rows[i]
            ELSE IF i = ev.pos
                 THEN [question_index  |-> ev.q,
                       selected_option |-> ev.sel,
                       is_correct      |-> ev.is_correct,
                       timestamp       |-> i]
                 ELSE [rows[i - 1] EXCEPT !.timestamp = i]]

\* C7: the session state a submission leaves is the one it leaves when
\* recording the attempt has the other outcome.
C7_SameStateWhenSaveFails ==
    [][ BranchStep
        => LET other == after_submit(view_mode, current_q_index, explanation,
                                     mistake_pointer, OtherOutcome(store, event),
                                     event.is_correct, event'.expl, event'.db_ok)
           IN  session' = << other.session.view_mode,
                             other.session.current_q_index,
                             other.session.explanation,
                             other.page.mistake_pointer >> ]_vars

\* C8: after a "return to overview" action the view is the overview and
\* no explanation is pending.
C8_ReturnClearsExplanation ==
    event.kind \in {"back", "back_cleared"}
    => /\ view_mode = "grid"
       /\ explanation = None

\* The position in the table of the row of question q with the latest
\* timestamp.
LatestRow(q) ==
    CHOOSE i \in 1..Len(store) :
       /\ store[i].question_index = q
       /\ \A j \in 1..Len(store) :
             store[j].question_index = q => store[j].timestamp <= store[i].timestamp

\* C9: a successful history read returns a mapping whose keys are exactly
\* the question indices with at least one row and whose values are the
\* is_correct of each question's latest row; a question whose latest row is
\* correct is not among the wrong indices, and no rows give the empty map.
C9_LatestAttemptWins ==
    (pc = "fetched" /\ event.db_ok)
    => LET attempted == { store[i].question_index : i \in 1..Len(store) }
           wrong     == wrong_indices(status_map)
       IN  /\ Keys(status_map) = attempted
           /\ Len(status_map) = Cardinality(attempted)
           /\ \A q \in attempted :
                 /\ Value(status_map, q) = store[LatestRow(q)].is_correct
                 /\ store[LatestRow(q)].is_correct
                       => q \notin { wrong[i] : i \in 1..Len(wrong) }
           /\ store = << >> => status_map = EmptyDict

\* Question 0 was answered wrongly and then correctly, the query returned
\* the later row first, and the read reports question 0 correct.
C9_Witness ==
    /\ pc = "fetched"
    /\ event.db_ok
    /\ Len(store) = 2
    /\ store[1].question_index = 0
    /\ store[2].question_index = 0
    /\ store[1].timestamp > store[2].timestamp
    /\ store[1].is_correct
    /\ ~store[2].is_correct
    /\ status_map = << [k |-> 0, v |-> TRUE] >>

\* The lowest question index absent from a status map, defined without the
\* script's loop.
HasAbsent(status) == \E i \in 0..(total_q - 1) : i \notin Keys(status)
LowestAbsent(status) ==
    CHOOSE i \in 0..(total_q - 1) :
       /\ i \notin Keys(status)
       /\ \A j \in 0..(i - 1) : j \in Keys(status)

\* C10: "continue" is offered on the overview exactly when some index in
\* 0..N-1 is absent from the status map (never when N = 0), and taking it
\* leads to the quiz on the lowest absent index with no explanation
\* pending.
C10_ContinueLowestAbsent ==
    [][ /\ ContinueOffered(Cur) <=> (display = "grid" /\ HasAbsent(status_map))
        /\ HandlerStep("continue")
              => /\ display = "grid"
                 /\ HasAbsent(status_map)
                 /\ view_mode' = "quiz"
                 /\ display' = "quiz"
                 /\ current_q_index' = LowestAbsent(status_map)
                 /\ shown_q' = LowestAbsent(status_map)
                 /\ explanation' = None ]_vars

\* Question 0 has a recorded attempt and "continue" has opened question 1.
C10_Witness ==
    /\ event.kind = "continue"
    /\ display = "quiz"
    /\ current_q_index = 1
    /\ explanation = None
    /\ \E i \in 1..Len(store) : store[i].question_index = 0

\* round(100 * correct / completed); the quotient has no half below
\* completed = 8, so the rounding of halves plays no part.
Rounded(correct, completed) == (200 * correct + completed) \div (2 * completed)

\* C11: the accuracy shown in the overview is 0 when nothing is completed
\* and round(100 * correct / completed) otherwise.
C11_AccuracyRounded ==
    pc = "shown"
    => LET completed == Cardinality(Keys(status_map))
           correct   == Cardinality({ key \in Keys(status_map) : Value(status_map, key) })
       IN  accuracy = (IF completed = 0 THEN 0 ELSE Rounded(correct, completed))

\* C12: in the overview and in mistake review, wrong_indices holds exactly
\* the keys of the status map whose value is false, in strictly ascending
\* order: no key whose latest attempt is correct, every key whose latest
\* attempt is incorrect.
C12_WrongIndicesExact ==
    display \in {"grid", "review", "cleared"}
    => /\ \A i \in 1..Len(wrong_list) :
             /\ wrong_list[i] \in Keys(status_map)
             /\ ~Value(status_map, wrong_list[i])
       /\ \A key \in Keys(status_map) :
             ~Value(status_map, key) => \E i \in 1..Len(wrong_list) : wrong_list[i] = key
       /\ \A i \in 1..Len(wrong_list), j \in 1..Len(wrong_list) :
             i < j => wrong_list[i] < wrong_list[j]

\* Question 1 was answered wrongly before question 0, and mistake review
\* lists them in ascending order.
C12_Witness ==
    /\ display = "review"
    /\ status_map = << [k |-> 1, v |-> FALSE], [k |-> 0, v |-> FALSE] >>
    /\ wrong_list = << 0, 1 >>

\* The handlers that only navigate.
Navigation == {"grid_select", "continue", "enter_review", "next", "back", "back_cleared"}

\* C13: the history is append-only: a step either leaves it unchanged or
\* is the log_attempt of a submission and adds one row after the rows
\* there, which stay as they are; the navigation handlers leave it
\* unchanged.
C13_AppendOnly ==
    [][ /\ \/ store' = store
           \/ /\ LogStep
              /\ Len(store') = Len(store) + 1
              /\ \A i \in 1..Len(store) : store'[i] = store[i]
        /\ (\E kind \in Navigation : HandlerStep(kind)) => store' = store ]_vars

\* Question 0 was attempted twice, both rows are in the history, and the
\* user has gone back to the overview.
C13_Witness ==
    /\ event.kind = "back"
    /\ Len(store) = 2
    /\ store[1].question_index = 0
    /\ store[2].question_index = 0
    /\ store[1].timestamp < store[2].timestamp

\* The views of the script.
Views == {"grid", "quiz", "review", "cleared"}

\* C14: when the question file cannot be read the session halts at
\* startup: no view is rendered and none of its buttons is offered.
C14_UnreadableSourceHalts ==
    ~csv_ok
    => /\ display \notin Views
       /\ ~ContinueOffered(Cur)
       /\ ~ReviewOffered(Cur)
       /\ ~BackOffered(Cur)
       /\ ~ClearedBackOffered(Cur)

\* C15: in mistake review at cursor k with an explanation pending, "next"
\* clears the explanation and moves the cursor one step; the page then
\* shows the entry at k+1 of the recomputed list, or the entry at 0 when
\* k+1 is the length of that list.
C15_ReviewNextOneStep ==
    [][ ( /\ display = "review"
          /\ HandlerStep("next") )
        => LET k == mistake_pointer
               W == wrong_list'
           IN  /\ explanation' = None
               /\ display' = "review"
               /\ IF k + 1 < Len(W)
                  THEN /\ mistake_pointer' = k + 1
                       /\ shown_q' = Item(W, k + 1)
                  ELSE /\ k + 1 = Len(W)
                       /\ shown_q' = Item(W, 0) ]_vars

\* C16: mistake review is entered only from the overview, by its review
\* button, and only when the mistake count of the history read for that
\* overview is positive; on entry the cursor is 0 and no explanation is
\* pending.
C16_ReviewEntry ==
    [][ ( /\ view_mode # "review_mistakes"
          /\ view_mode' = "review_mistakes" )
        => /\ view_mode = "grid"
           /\ display = "grid"
           /\ HandlerStep("enter_review")
           /\ Len(wrong_list) > 0
           /\ mistake_pointer' = 0
           /\ explanation' = None ]_vars

\* Mistake review has been entered from the overview with two mistakes on
\* record, and shows the first of them.
C16_Witness ==
    /\ event.kind = "enter_review"
    /\ view_mode = "review_mistakes"
    /\ display = "review"
    /\ wrong_list = << 0, 1 >>
    /\ mistake_pointer = 0
    /\ shown_q = 0
    /\ Len(store) = 3

\* C17: whenever view_mode is the quiz, current_q_index is in 0..N-1 and
\* the page shows that question: the lookup never goes out of range, and
\* with N = 0 the quiz view is never reached.
C17_QuizIndexInRange ==
    view_mode = "quiz"
    => /\ 0 <= current_q_index
       /\ current_q_index <= total_q - 1
       /\ total_q > 0
       /\ display = "quiz"
       /\ shown_q = current_q_index

\* "next" after a wrong answer to question 0 has opened the last question.
C17_Witness ==
    /\ event.kind = "next"
    /\ event.q = 0
    /\ view_mode = "quiz"
    /\ total_q = 2
    /\ current_q_index = total_q - 1

\* C18: the cleared-mistakes display is shown only while no question's
\* latest row in the history is incorrect, a failed history read included.
C18_ClearedOnlyWhenNoMistakes ==
    display = "cleared"
    => \A q \in { store[i].question_index : i \in 1..Len(store) } :
          store[LatestRow(q)].is_correct

\* C19: whenever a pending explanation is displayed next to a question,
\* that question is the one whose incorrect submission produced the
\* explanation, also when other sessions of the same user append rows.
C19_ExplanationBesideItsQuestion ==
    NextOffered(Cur, explanation) => shown_q = explained_q

\* C20: every row written is for a question index in 0..N-1 whose parsed
\* options are not empty and holds a letter among that question's options,
\* and is written for the question on the page; so a question without
\* options never enters the status map, and "continue" opens it, without
\* radio or submit button, every time it is the lowest index absent from
\* the status map.
C20_NoRowForEmptyOptions ==
    /\ [](/\ \A i \in 1..Len(store) :
               /\ store[i].question_index \in 0..(total_q - 1)
               /\ Options(store[i].question_index) # {}
               /\ store[i].selected_option \in Options(store[i].question_index)
          /\ \A q \in 0..(total_q - 1) :
               Options(q) = {} => q \notin Keys(status_map))
    /\ [][ /\ LogStep => /\ event'.q = shown_q
                          /\ event'.sel \in Options(shown_q)
           /\ ( /\ HandlerStep("continue")
                /\ HasAbsent(status_map)
                /\ Options(LowestAbsent(status_map)) = {} )
              => /\ current_q_index' = LowestAbsent(status_map)
                 /\ display' = "quiz"
                 /\ shown_q' = LowestAbsent(status_map)
                 /\ ~HasRadio(Cur')
                 /\ ~SubmitOffered(Cur', explanation') ]_vars

\* Question 0 has a row, question 1 has no options, and "continue" has
\* opened question 1, which shows neither radio nor submit button.
C20_Witness ==
    /\ event.kind = "continue"
    /\ total_q = 2
    /\ Options(1) = {}
    /\ current_q_index = 1
    /\ display = "quiz"
    /\ ~HasRadio(Cur)
    /\ store # << >>
    /\ store[1].question_index = 0

====
